---- MODULE Spec2Model ----
(***************************************************************************)
(* Student-counselor messaging backend: the entity store (users,           *)
(* conversations, messages) and the service operations over it.            *)
(*                                                                         *)
(* Each mutating handler is one action; each query is an operator over the *)
(* store that yields the outcome and the returned rows.  The store's       *)
(* generated keys (uuid) are counters that are never reused; the store's   *)
(* clock stamps created_at.                                                *)
(***************************************************************************)
EXTENDS FiniteSets, Integers, Sequences, TLC

\* ---------------------------------------------------------------- bounds
MaxSteps == 3   \* handler calls in one behaviour

\* ----------------------------------------------------------------- enums
\* role.enum.ts is not part of the sources; the three roles are the ones the
\* services compare against.
STUDENT == "student"
COUNSELOR == "counselor"
ADMIN == "admin"

\* ConversationStatus (NEW is a reserved word of TLA+, hence the prefix).
S_NEW == "new"
S_IN_PROGRESS == "in_progress"
S_RESOLVED == "resolved"
S_CLOSED == "closed"
ConversationStatus == {S_NEW, S_IN_PROGRESS, S_RESOLVED, S_CLOSED}

LOW == "low"
MEDIUM == "medium"
HIGH == "high"
EMERGENCY == "emergency"
ConversationUrgency == {LOW, MEDIUM, HIGH, EMERGENCY}

SenderStudent == "student"
SenderCounselor == "counselor"

\* The absent value: a null column, an omitted DTO field or query parameter.
NULL == "null"

\* Outcomes of a handler: success, the three exceptions the services throw,
\* and a rejection by the store (a foreign key or a unique index violated by
\* the statement), which no handler catches.
OK == "ok"
NotFound == "NotFound"
Forbidden == "Forbidden"
Conflict == "Conflict"
DbError == "DbError"

\* ------------------------------------------------------------ population
\* The registered accounts the operations are exercised with: two students,
\* two counselors and an admin.  A user's role is fixed at registration.
Students == {"s1", "s2"}
Counselors == {"c1", "c2"}
Admins == {"a1"}
UserIds == Students \cup Counselors \cup Admins

RoleOf(u) ==
    IF u \in Students THEN STUDENT
    ELSE IF u \in Counselors THEN COUNSELOR ELSE ADMIN

RealName(u) == "user_" \o u

\* Inputs of the request DTOs.
Categories == {"academic"}
Texts == {"hi"}

VARIABLES
    users,          \* user_id -> row                       (table users)
    conversations,  \* conversation_id -> row                (table conversations)
    messages,       \* message_id -> row                     (table messages)
    nextConv,       \* next generated conversation_id
    nextMsg,        \* next generated message_id
    now,            \* the store's clock
    steps,          \* handler calls begun so far
    inflight        \* call number -> a call between two of its statements

vars == <<users, conversations, messages, nextConv, nextMsg, now, steps, inflight>>
store == <<users, conversations, messages>>

\* A handler call begins: one counted step.
Begun == steps < MaxSteps /\ steps' = steps + 1

\* A handler call run from its first statement to its last with no other
\* call in between: one counted step that leaves the calls in flight alone.
Counted == Begun /\ inflight' = inflight


\* ------------------------------------------------------------------ Init
\* The store after the accounts have registered: no conversation, no message.
Init ==
    /\ users = [u \in UserIds |->
                   [user_id |-> u, username |-> RealName(u), role |-> RoleOf(u)]]
    /\ conversations = <<>>
    /\ messages = <<>>
    /\ nextConv = 1
    /\ nextMsg = 1
    /\ now = 0
    /\ steps = 0
    /\ inflight = <<>>

\* ------------------------------------------------------- store primitives
Exists(table, id) == id \in DOMAIN table

\* table with one more row under key id
Insert(table, id, row) ==
    [k \in DOMAIN table \cup {id} |-> IF k = id THEN row ELSE table[k]]

\* table without the rows whose key is in ids
DeleteKeys(table, ids) == [k \in DOMAIN table \ ids |-> table[k]]

\* The foreign key of conversations.assigned_to (relation counselor -> users):
\* a non-null value must be the key of a user row.
AssignedToFk(assigned_to) == assigned_to = NULL \/ Exists(users, assigned_to)

\* The messages of one conversation (relation Conversation.messages).
MessagesOf(conversationId) ==
    {messages[m] : m \in {k \in DOMAIN messages :
                              messages[k].conversation_id = conversationId}}

\* =========================================================================
\* ConversationsService: mutations
\* =========================================================================

\* Mutant of ConversationsServiceCreate: the opening message is not saved.
ConversationsServiceCreateWithoutMessage(userId, category, urgency, is_anonymous, initialMessage, elapsed) ==
    /\ conversations' = Insert(conversations, nextConv,
            [conversation_id |-> nextConv,
             user_id |-> userId,
             category |-> category,
             urgency |-> urgency,
             is_anonymous |-> IF is_anonymous = <<>> THEN FALSE ELSE is_anonymous[1],
             status |-> S_NEW,
             assigned_to |-> NULL,
             created_at |-> now + elapsed])
    /\ nextConv' = nextConv + 1
    /\ now' = now + elapsed
    /\ UNCHANGED <<users, messages, nextMsg>>

\* create: the conversation row, then its opening message.  CreateDateColumn
\* stamps both with the store's clock, which has advanced by elapsed since the
\* last insert.
ConversationsServiceCreate(userId, category, urgency, is_anonymous, initialMessage, elapsed) ==
    LET conversation ==
            [conversation_id |-> nextConv,
             user_id |-> userId,
             category |-> category,
             urgency |-> urgency,
             is_anonymous |-> IF is_anonymous = <<>> THEN FALSE ELSE is_anonymous[1],
             status |-> S_NEW,
             assigned_to |-> NULL,
             created_at |-> now + elapsed]
        message ==
            [message_id |-> nextMsg,
             conversation_id |-> nextConv,
             sender_id |-> userId,
             sender_type |-> SenderStudent,
             message_text |-> initialMessage,
             is_read |-> FALSE,
             created_at |-> now + elapsed]
    IN  /\ conversations' = Insert(conversations, nextConv, conversation)
        /\ messages' = Insert(messages, nextMsg, message)
        /\ nextConv' = nextConv + 1
        /\ nextMsg' = nextMsg + 1
        /\ now' = now + elapsed
        /\ UNCHANGED users

\* POST /conversations, @Roles(STUDENT)
CreateOutcome(caller) == IF users[caller].role # STUDENT THEN Forbidden ELSE OK

Create(caller, category, urgency, is_anonymous, initialMessage, elapsed) ==
    /\ Counted
    /\ Exists(users, caller)
    /\ IF CreateOutcome(caller) = OK
       THEN ConversationsServiceCreate(caller, category, urgency, is_anonymous,
                                       initialMessage, elapsed)
       ELSE UNCHANGED <<users, conversations, messages, nextConv, nextMsg, now>>

\* Mutant of UpdateOutcome: the counselor's assignment check is missing.
UpdateOutcomeWithoutAssigneeCheck(conversationId, dto, userId, userRole) ==
    IF userRole = STUDENT THEN Forbidden
    ELSE IF ~Exists(conversations, conversationId) THEN NotFound
    ELSE IF ~AssignedToFk(dto.assigned_to) THEN DbError
    ELSE OK

\* update: the checks made, in order; the save is rejected by the store when
\* the new assigned_to is no user.
UpdateOutcome(conversationId, dto, userId, userRole) ==
    IF userRole = STUDENT THEN Forbidden
    ELSE IF ~Exists(conversations, conversationId) THEN NotFound
    ELSE IF /\ userRole = COUNSELOR
            /\ conversations[conversationId].assigned_to # NULL
            /\ conversations[conversationId].assigned_to # userId
         THEN Forbidden
    ELSE IF ~AssignedToFk(dto.assigned_to) THEN DbError
    ELSE OK

\* update: the row as saved.
UpdateRow(conversation, dto) ==
    [conversation EXCEPT
        !.status = IF dto.status # NULL THEN dto.status ELSE @,
        !.assigned_to = IF dto.assigned_to # NULL THEN dto.assigned_to ELSE @]

\* PATCH /conversations/:id
Update(caller, conversationId, dto) ==
    /\ Counted
    /\ Exists(users, caller)
    /\ conversations' =
         IF UpdateOutcome(conversationId, dto, caller, users[caller].role) = OK
         THEN [conversations EXCEPT
                 ![conversationId] = UpdateRow(conversations[conversationId], dto)]
         ELSE conversations
    /\ UNCHANGED <<users, messages, nextConv, nextMsg, now>>

\* assignToCounselor: the checks made, in order.
AssignOutcome(conversationId, counselorId, userRole) ==
    IF userRole = STUDENT THEN Forbidden
    ELSE IF ~Exists(conversations, conversationId) THEN NotFound
    ELSE IF ~AssignedToFk(counselorId) THEN DbError
    ELSE OK

\* Mutant of AssignRow: the status is left as it was.
AssignRowKeepingStatus(conversation, counselorId) ==
    [conversation EXCEPT !.assigned_to = counselorId]

\* assignToCounselor: the row as saved.
AssignRow(conversation, counselorId) ==
    [conversation EXCEPT !.assigned_to = counselorId, !.status = S_IN_PROGRESS]

\* PATCH /conversations/:id/assign/:counselorId
AssignToCounselor(caller, conversationId, counselorId) ==
    /\ Counted
    /\ Exists(users, caller)
    /\ conversations' =
         IF AssignOutcome(conversationId, counselorId, users[caller].role) = OK
         THEN [conversations EXCEPT
                 ![conversationId] = AssignRow(conversations[conversationId], counselorId)]
         ELSE conversations
    /\ UNCHANGED <<users, messages, nextConv, nextMsg, now>>

\* toggleAnonymity: the lookup is by id and owner together.
ToggleOutcome(conversationId, userId, userRole) ==
    IF userRole # STUDENT THEN Forbidden
    ELSE IF ~(/\ Exists(conversations, conversationId)
              /\ conversations[conversationId].user_id = userId) THEN NotFound
    ELSE OK

\* toggleAnonymity: the row as saved.
ToggleRow(conversation) == [conversation EXCEPT !.is_anonymous = ~@]

\* PATCH /conversations/:id/toggle-anonymity
ToggleAnonymity(caller, conversationId) ==
    /\ Counted
    /\ Exists(users, caller)
    /\ conversations' =
         IF ToggleOutcome(conversationId, caller, users[caller].role) = OK
         THEN [conversations EXCEPT
                 ![conversationId] = ToggleRow(conversations[conversationId])]
         ELSE conversations
    /\ UNCHANGED <<users, messages, nextConv, nextMsg, now>>

\* =========================================================================
\* ConversationsService: queries
\* =========================================================================
Anonymous == "Anonymous"

\* leftJoinAndSelect('conversation.user'): the owner's row, when there is one.
JoinUser(userId) == IF Exists(users, userId) THEN <<users[userId]>> ELSE <<>>

\* A conversation as returned with relations ['messages', 'user'].
WithMessagesAndUser(conversationId) ==
    [conversation |-> conversations[conversationId],
     user |-> JoinUser(conversations[conversationId].user_id),
     messages |-> MessagesOf(conversationId)]

\* A conversation as returned with relations ['messages'].
WithMessages(conversationId) ==
    [conversation |-> conversations[conversationId],
     user |-> <<>>,
     messages |-> MessagesOf(conversationId)]

\* Mutant of UrgencyRank: the ranks in the order the enum declares its members.
UrgencyRankInEnumOrder(urgency) ==
    CASE urgency = LOW -> 1
      [] urgency = MEDIUM -> 2
      [] urgency = HIGH -> 3
      [] urgency = EMERGENCY -> 4

\* The CASE expression selected as priority_order.
UrgencyRank(urgency) ==
    CASE urgency = EMERGENCY -> 1
      [] urgency = HIGH -> 2
      [] urgency = MEDIUM -> 3
      [] urgency = LOW -> 4

\* Mutant of PriorityBefore: created_at DESC within one rank.
PriorityBeforeNewestFirst(a, b) ==
    \/ UrgencyRank(conversations[a].urgency) < UrgencyRank(conversations[b].urgency)
    \/ /\ UrgencyRank(conversations[a].urgency) = UrgencyRank(conversations[b].urgency)
       /\ conversations[a].created_at > conversations[b].created_at

\* ORDER BY priority_order ASC, conversation.created_at ASC: a sorts strictly
\* before b.
PriorityBefore(a, b) ==
    \/ UrgencyRank(conversations[a].urgency) < UrgencyRank(conversations[b].urgency)
    \/ /\ UrgencyRank(conversations[a].urgency) = UrgencyRank(conversations[b].urgency)
       /\ conversations[a].created_at < conversations[b].created_at

\* The orders the store may return the rows ids in under that ORDER BY: rows
\* with equal keys come in any order.
RECURSIVE PriorityOrders(_)
PriorityOrders(ids) ==
    IF ids = {} THEN {<<>>}
    ELSE UNION {{<<first>> \o rest : rest \in PriorityOrders(ids \ {first})} :
                first \in {a \in ids : \A b \in ids : ~PriorityBefore(b, a)}}

\* order: { created_at: 'DESC' }
NewestBefore(a, b) == conversations[a].created_at > conversations[b].created_at

RECURSIVE NewestFirstOrders(_)
NewestFirstOrders(ids) ==
    IF ids = {} THEN {<<>>}
    ELSE UNION {{<<first>> \o rest : rest \in NewestFirstOrders(ids \ {first})} :
                first \in {a \in ids : \A b \in ids : ~NewestBefore(b, a)}}

\* Mutant of FindByStudent: the where clause on user_id is missing.
FindByStudentUnfiltered(userId) ==
    {[i \in 1..Len(o) |-> WithMessages(o[i])] :
        o \in NewestFirstOrders(DOMAIN conversations)}

\* findByStudent: the results the call may return.
FindByStudent(userId) ==
    LET own == {c \in DOMAIN conversations : conversations[c].user_id = userId}
    IN  {[i \in 1..Len(o) |-> WithMessages(o[i])] : o \in NewestFirstOrders(own)}

\* Mutant of StatusFilter: no default restriction when no status is given.
StatusFilterWithoutDefault(status, conversation) ==
    status # NULL => conversation.status = status

\* findByPriority: the where clause on status.
StatusFilter(status, conversation) ==
    IF status # NULL
    THEN conversation.status = status
    ELSE conversation.status \in {S_NEW, S_IN_PROGRESS}

\* findByPriority: the andWhere clause on assigned_to.
AssignedFilter(assignedTo, conversation) ==
    assignedTo # NULL => conversation.assigned_to = assignedTo

\* findByPriority: the results the call may return.
FindByPriority(status, assignedTo) ==
    LET matching == {c \in DOMAIN conversations :
                        /\ StatusFilter(status, conversations[c])
                        /\ AssignedFilter(assignedTo, conversations[c])}
    IN  {[i \in 1..Len(o) |-> WithMessagesAndUser(o[i])] :
            o \in PriorityOrders(matching)}

\* findAll
FindAllOutcome(userRole) == IF userRole = STUDENT THEN Forbidden ELSE OK

FindAll(userRole, userId) ==
    LET matching == {c \in DOMAIN conversations :
                        (userRole = COUNSELOR /\ userId # NULL)
                            => conversations[c].assigned_to = userId}
    IN  {[i \in 1..Len(o) |-> WithMessagesAndUser(o[i])] :
            o \in NewestFirstOrders(matching)}

\* findOne: the checks made, in order.
FindOneOutcome(conversationId, userId, userRole) ==
    IF ~Exists(conversations, conversationId) THEN NotFound
    ELSE IF userRole = STUDENT /\ conversations[conversationId].user_id # userId
         THEN Forbidden
    ELSE IF /\ userRole = COUNSELOR
            /\ conversations[conversationId].assigned_to # NULL
            /\ conversations[conversationId].assigned_to # userId
         THEN Forbidden
    ELSE OK

\* Mutant of HideUsername: the username is returned as stored.
HideUsernameNever(view) == view

\* findOne: the username of the loaded user is overwritten on the returned
\* object (which is not saved).
HideUsername(view) ==
    IF view.conversation.is_anonymous /\ view.user # <<>>
    THEN [view EXCEPT !.user = <<[@[1] EXCEPT !.username = Anonymous]>>]
    ELSE view

\* findOne: the conversation returned when the checks pass.
FindOne(conversationId) == HideUsername(WithMessagesAndUser(conversationId))

\* getStatistics: the rows the query builder starts from (filtered by
\* assigned_to for a counselor only).
StatisticsScope(userId, userRole) ==
    {c \in DOMAIN conversations :
        (userRole = COUNSELOR /\ userId # NULL)
            => conversations[c].assigned_to = userId}

\* getStatistics (GET /conversations/statistics, any authenticated caller)
GetStatistics(userId, userRole) ==
    LET scope == StatisticsScope(userId, userRole)
        WithStatus(status) == {c \in scope : conversations[c].status = status}
    IN  [total |-> Cardinality(scope),
         new |-> Cardinality(WithStatus(S_NEW)),
         inProgress |-> Cardinality(WithStatus(S_IN_PROGRESS)),
         resolved |-> Cardinality(WithStatus(S_RESOLVED)),
         emergency |-> Cardinality({c \in scope :
                          /\ conversations[c].urgency = EMERGENCY
                          /\ conversations[c].status \in {S_NEW, S_IN_PROGRESS}})]

\* =========================================================================
\* ConversationsController: queries
\* =========================================================================

\* GET /conversations
FindAllRouteOutcome(caller) ==
    IF users[caller].role = STUDENT THEN OK ELSE FindAllOutcome(users[caller].role)

FindAllRoute(caller) ==
    IF users[caller].role = STUDENT
    THEN FindByStudent(caller)
    ELSE FindAll(users[caller].role, caller)

\* GET /conversations/priority-queue, @Roles(COUNSELOR, ADMIN)
GetPriorityQueueOutcome(caller) ==
    IF users[caller].role \in {COUNSELOR, ADMIN} THEN OK ELSE Forbidden

\* Mutant of QueueAssignedTo: the caller's id is never handed on.
QueueAssignedToNobody(caller) == NULL

\* getPriorityQueue: the assignedTo handed to the service.
QueueAssignedTo(caller) == IF users[caller].role = COUNSELOR THEN caller ELSE NULL

GetPriorityQueue(caller, status) == FindByPriority(status, QueueAssignedTo(caller))

\* =========================================================================
\* MessagesService
\* =========================================================================

\* Mutant of MessageCreateOutcome: a counselor is checked as in the read
\* operations (unassigned conversations pass).
MessageCreateOutcomeUnassignedPasses(conversationId, userId, userRole) ==
    IF ~Exists(conversations, conversationId) THEN NotFound
    ELSE IF userRole = STUDENT /\ conversations[conversationId].user_id # userId
         THEN Forbidden
    ELSE IF /\ userRole = COUNSELOR
            /\ conversations[conversationId].assigned_to # NULL
            /\ conversations[conversationId].assigned_to # userId
         THEN Forbidden
    ELSE OK

\* create: the checks made, in order.
MessageCreateOutcome(conversationId, userId, userRole) ==
    IF ~Exists(conversations, conversationId) THEN NotFound
    ELSE IF userRole = STUDENT /\ conversations[conversationId].user_id # userId
         THEN Forbidden
    ELSE IF userRole = COUNSELOR /\ conversations[conversationId].assigned_to # userId
         THEN Forbidden
    ELSE OK

\* Mutant of SenderTypeOf: only a counselor sends as counselor.
SenderTypeOfCounselorOnly(userRole) ==
    IF userRole = COUNSELOR THEN SenderCounselor ELSE SenderStudent

\* create: the sender type is taken from the caller's role.
SenderTypeOf(userRole) == IF userRole = STUDENT THEN SenderStudent ELSE SenderCounselor

\* Mutant of MessageCreate: a message sent also puts the conversation
\* IN_PROGRESS.
MessageCreateReopening(caller, conversationId, message_text, elapsed) ==
    /\ Counted
    /\ Exists(users, caller)
    /\ IF MessageCreateOutcome(conversationId, caller, users[caller].role) = OK
       THEN /\ messages' = Insert(messages, nextMsg,
                  [message_id |-> nextMsg,
                   conversation_id |-> conversationId,
                   sender_id |-> caller,
                   sender_type |-> SenderTypeOf(users[caller].role),
                   message_text |-> message_text,
                   is_read |-> FALSE,
                   created_at |-> now + elapsed])
            /\ nextMsg' = nextMsg + 1
            /\ now' = now + elapsed
            /\ conversations' = [conversations EXCEPT
                                    ![conversationId].status = S_IN_PROGRESS]
       ELSE UNCHANGED <<messages, nextMsg, now, conversations>>
    /\ UNCHANGED <<users, nextConv>>

\* POST /conversations/:conversationId/messages
MessageCreate(caller, conversationId, message_text, elapsed) ==
    /\ Counted
    /\ Exists(users, caller)
    /\ IF MessageCreateOutcome(conversationId, caller, users[caller].role) = OK
       THEN /\ messages' = Insert(messages, nextMsg,
                  [message_id |-> nextMsg,
                   conversation_id |-> conversationId,
                   sender_id |-> caller,
                   sender_type |-> SenderTypeOf(users[caller].role),
                   message_text |-> message_text,
                   is_read |-> FALSE,
                   created_at |-> now + elapsed])
            /\ nextMsg' = nextMsg + 1
            /\ now' = now + elapsed
       ELSE UNCHANGED <<messages, nextMsg, now>>
    /\ UNCHANGED <<users, conversations, nextConv>>

\* Mutant of FindByConversationOutcome: a counselor is checked as in create
\* (only the assignee passes).
FindByConversationOutcomeAssigneeOnly(conversationId, userId, userRole) ==
    IF ~Exists(conversations, conversationId) THEN NotFound
    ELSE IF userRole = STUDENT /\ conversations[conversationId].user_id # userId
         THEN Forbidden
    ELSE IF userRole = COUNSELOR /\ conversations[conversationId].assigned_to # userId
         THEN Forbidden
    ELSE OK

\* findByConversation: the checks made, in order.
FindByConversationOutcome(conversationId, userId, userRole) ==
    IF ~Exists(conversations, conversationId) THEN NotFound
    ELSE IF userRole = STUDENT /\ conversations[conversationId].user_id # userId
         THEN Forbidden
    ELSE IF /\ userRole = COUNSELOR
            /\ conversations[conversationId].assigned_to # NULL
            /\ conversations[conversationId].assigned_to # userId
         THEN Forbidden
    ELSE OK

\* markAsRead: the checks made, in order.  The message is loaded with its
\* conversation.
MarkAsReadOutcome(messageId, userId, userRole) ==
    IF ~Exists(messages, messageId) THEN NotFound
    ELSE LET message == messages[messageId]
             conversation == conversations[message.conversation_id]
         IN  IF userRole = STUDENT
             THEN IF message.sender_type = SenderStudent THEN Forbidden
                  ELSE IF conversation.user_id # userId THEN Forbidden
                  ELSE OK
             ELSE IF userRole = COUNSELOR
             THEN IF message.sender_type = SenderCounselor THEN Forbidden
                  ELSE IF conversation.assigned_to # userId THEN Forbidden
                  ELSE OK
             ELSE OK

\* Mutant of MarkRead: the flag is inverted.
MarkReadInverting(message) == [message EXCEPT !.is_read = ~@]

\* message.is_read = true
MarkRead(message) == [message EXCEPT !.is_read = TRUE]

\* PATCH /conversations/:conversationId/messages/:messageId/read
MarkAsRead(caller, messageId) ==
    /\ Counted
    /\ Exists(users, caller)
    /\ messages' =
         IF MarkAsReadOutcome(messageId, caller, users[caller].role) = OK
         THEN [messages EXCEPT ![messageId] = MarkRead(messages[messageId])]
         ELSE messages
    /\ UNCHANGED <<users, conversations, nextConv, nextMsg, now>>

\* markConversationAsRead: the checks made, in order.
MarkConversationAsReadOutcome(conversationId, userId, userRole) ==
    IF ~Exists(conversations, conversationId) THEN NotFound
    ELSE IF userRole = STUDENT /\ conversations[conversationId].user_id # userId
         THEN Forbidden
    ELSE IF /\ userRole = COUNSELOR
            /\ conversations[conversationId].assigned_to # NULL
            /\ conversations[conversationId].assigned_to # userId
         THEN Forbidden
    ELSE OK

\* Mutant of SenderTypeToMark: the caller's own side.
SenderTypeToMarkOwn(userRole) ==
    IF userRole = STUDENT THEN SenderStudent ELSE SenderCounselor

\* markConversationAsRead: senderTypeToMark.
SenderTypeToMark(userRole) ==
    IF userRole = STUDENT THEN SenderCounselor ELSE SenderStudent

\* markConversationAsRead: the rows the bulk update matches.
MatchedByMarkAll(conversationId, userRole) ==
    {m \in DOMAIN messages :
        /\ messages[m].conversation_id = conversationId
        /\ messages[m].sender_type = SenderTypeToMark(userRole)
        /\ messages[m].is_read = FALSE}

\* Mutant of MarkConversationAsRead: the bulk update runs once the
\* conversation is found, before the authorization check.
MarkConversationAsReadBeforeCheck(caller, conversationId) ==
    /\ Counted
    /\ Exists(users, caller)
    /\ messages' =
         IF MarkConversationAsReadOutcome(conversationId, caller, users[caller].role)
               # NotFound
         THEN [m \in DOMAIN messages |->
                 IF m \in MatchedByMarkAll(conversationId, users[caller].role)
                 THEN [messages[m] EXCEPT !.is_read = TRUE]
                 ELSE messages[m]]
         ELSE messages
    /\ UNCHANGED <<users, conversations, nextConv, nextMsg, now>>

\* PATCH /conversations/:conversationId/messages/mark-all-read
MarkConversationAsRead(caller, conversationId) ==
    /\ Counted
    /\ Exists(users, caller)
    /\ messages' =
         IF MarkConversationAsReadOutcome(conversationId, caller, users[caller].role) = OK
         THEN [m \in DOMAIN messages |->
                 IF m \in MatchedByMarkAll(conversationId, users[caller].role)
                 THEN [messages[m] EXCEPT !.is_read = TRUE]
                 ELSE messages[m]]
         ELSE messages
    /\ UNCHANGED <<users, conversations, nextConv, nextMsg, now>>

\* Mutant of GetUnreadCount: read messages are counted too.
GetUnreadCountOfAll(userId, userRole) ==
    Cardinality({m \in DOMAIN messages :
        /\ userRole = STUDENT =>
              /\ conversations[messages[m].conversation_id].user_id = userId
              /\ messages[m].sender_type = SenderCounselor
        /\ userRole = COUNSELOR =>
              /\ conversations[messages[m].conversation_id].assigned_to = userId
              /\ messages[m].sender_type = SenderStudent})

\* getUnreadCount (GET /messages/unread-count)
GetUnreadCount(userId, userRole) ==
    Cardinality({m \in DOMAIN messages :
        /\ messages[m].is_read = FALSE
        /\ userRole = STUDENT =>
              /\ conversations[messages[m].conversation_id].user_id = userId
              /\ messages[m].sender_type = SenderCounselor
        /\ userRole = COUNSELOR =>
              /\ conversations[messages[m].conversation_id].assigned_to = userId
              /\ messages[m].sender_type = SenderStudent})

\* =========================================================================
\* UsersService
\* =========================================================================

\* Mutant of ConversationsOfUser: only the conversations the user owns.
ConversationsOwnedBy(userId) ==
    {c \in DOMAIN conversations : conversations[c].user_id = userId}

\* deleteUser: the conversations found for the user (owner or assignee).
ConversationsOfUser(userId) ==
    {c \in DOMAIN conversations :
        \/ conversations[c].user_id = userId
        \/ conversations[c].assigned_to = userId}

\* deleteUser: the messages deleted (conversation_id In conversationIds).
MessagesIn(conversationIds) ==
    {m \in DOMAIN messages : messages[m].conversation_id \in conversationIds}

DeleteUserOutcome(userId) == IF ~Exists(users, userId) THEN NotFound ELSE OK

UsersServiceDeleteUser(userId) ==
    IF DeleteUserOutcome(userId) = OK
    THEN LET conversationIds == ConversationsOfUser(userId)
         IN  /\ messages' = DeleteKeys(messages, MessagesIn(conversationIds))
             /\ conversations' = DeleteKeys(conversations, conversationIds)
             /\ users' = DeleteKeys(users, {userId})
    ELSE UNCHANGED <<users, conversations, messages>>

\* DELETE /users/me (any caller, on itself) and DELETE /users/:id (@Roles(ADMIN))
DeleteRouteOutcome(caller, id) ==
    IF id # caller /\ users[caller].role # ADMIN THEN Forbidden
    ELSE DeleteUserOutcome(id)

DeleteUser(caller, id) ==
    /\ Counted
    /\ Exists(users, caller)
    /\ IF id # caller /\ users[caller].role # ADMIN
       THEN UNCHANGED <<users, conversations, messages>>
       ELSE UsersServiceDeleteUser(id)
    /\ UNCHANGED <<nextConv, nextMsg, now>>

\* =========================================================================
\* Handlers statement by statement
\* =========================================================================
\* A handler awaits the store at every repository call, and other calls run
\* in between.  A call in flight is kept with what it has loaded and the
\* statement it will run next (pc); a call that has ended keeps its outcome.
\* The lookups and checks a handler makes before its first write are one
\* step; every write is one step.

Call(op, caller, id, arg, loaded, pc, outcome) ==
    [op |-> op, caller |-> caller, id |-> id, arg |-> arg,
     loaded |-> loaded, pc |-> pc, outcome |-> outcome]

Done == "done"
Pending == "pending"

\* The calls of handler op that will run statement pc next.
CallsAt(op, pc) ==
    {r \in DOMAIN inflight : inflight[r].op = op /\ inflight[r].pc = pc}

\* Repository.save of a loaded conversation: the store is brought to the row
\* as the call holds it (save reloads the stored row and updates every column
\* that differs from the entity), unless the store rejects the write (foreign
\* keys user_id and assigned_to).
SaveConversation(r, row) ==
    IF Exists(users, row.user_id) /\ AssignedToFk(row.assigned_to)
    THEN /\ conversations' = Insert(conversations, row.conversation_id, row)
         /\ inflight' = [inflight EXCEPT ![r].pc = Done, ![r].outcome = OK]
    ELSE /\ conversations' = conversations
         /\ inflight' = [inflight EXCEPT ![r].pc = Done, ![r].outcome = DbError]

\* assignToCounselor up to its save: the role check and the lookup.
AssignToCounselorFind(caller, conversationId, counselorId) ==
    /\ Begun
    /\ Exists(users, caller)
    /\ LET found == IF users[caller].role = STUDENT THEN Forbidden
                    ELSE IF ~Exists(conversations, conversationId) THEN NotFound
                    ELSE OK
       IN  inflight' = Insert(inflight, steps + 1,
               IF found = OK
               THEN Call("assignToCounselor", caller, conversationId, counselorId,
                         conversations[conversationId], "save", Pending)
               ELSE Call("assignToCounselor", caller, conversationId, counselorId,
                         NULL, Done, found))
    /\ UNCHANGED <<users, conversations, messages, nextConv, nextMsg, now>>

\* Mutant of AssignToCounselorSave: the save is refused when the stored row
\* is no longer the one loaded.
AssignToCounselorSaveIfUnchanged(r) ==
    /\ r \in CallsAt("assignToCounselor", "save")
    /\ IF conversations[inflight[r].id] = inflight[r].loaded
       THEN SaveConversation(r, AssignRow(inflight[r].loaded, inflight[r].arg))
       ELSE /\ conversations' = conversations
            /\ inflight' = [inflight EXCEPT ![r].pc = Done, ![r].outcome = DbError]
    /\ UNCHANGED <<users, messages, nextConv, nextMsg, now, steps>>

\* assignToCounselor: the two assignments and the save.
AssignToCounselorSave(r) ==
    /\ r \in CallsAt("assignToCounselor", "save")
    /\ SaveConversation(r, AssignRow(inflight[r].loaded, inflight[r].arg))
    /\ UNCHANGED <<users, messages, nextConv, nextMsg, now, steps>>

\* update up to its save: the role check, the lookup and the assignment
\* check, made on the row as loaded.
UpdateFind(caller, conversationId, dto) ==
    /\ Begun
    /\ Exists(users, caller)
    /\ LET found == UpdateOutcome(conversationId, dto, caller, users[caller].role)
       IN  inflight' = Insert(inflight, steps + 1,
               IF found \in {Forbidden, NotFound}
               THEN Call("update", caller, conversationId, dto, NULL, Done, found)
               ELSE Call("update", caller, conversationId, dto,
                         conversations[conversationId], "save", Pending))
    /\ UNCHANGED <<users, conversations, messages, nextConv, nextMsg, now>>

\* update: the field assignments and the save.
UpdateSave(r) ==
    /\ r \in CallsAt("update", "save")
    /\ SaveConversation(r, UpdateRow(inflight[r].loaded, inflight[r].arg))
    /\ UNCHANGED <<users, messages, nextConv, nextMsg, now, steps>>

\* A call that ends at statement r with the given outcome.
Ended(r, outcome) == [inflight EXCEPT ![r].pc = Done, ![r].outcome = outcome]

\* ConversationsService.create, called for an authenticated student: nothing
\* is read before the first save.
CreateBegin(caller, category, initialMessage) ==
    /\ Begun
    /\ Exists(users, caller)
    /\ users[caller].role = STUDENT
    /\ inflight' = Insert(inflight, steps + 1,
           Call("create", caller, NULL, <<category, initialMessage>>, NULL,
                "conversation", Pending))
    /\ UNCHANGED <<users, conversations, messages, nextConv, nextMsg, now>>

\* create: the conversation is saved; the store rejects a user_id that names
\* no user.
CreateSaveConversation(r) ==
    /\ r \in CallsAt("create", "conversation")
    /\ IF Exists(users, inflight[r].caller)
       THEN /\ conversations' = Insert(conversations, nextConv,
                  [conversation_id |-> nextConv,
                   user_id |-> inflight[r].caller,
                   category |-> inflight[r].arg[1],
                   urgency |-> MEDIUM,
                   is_anonymous |-> FALSE,
                   status |-> S_NEW,
                   assigned_to |-> NULL,
                   created_at |-> now + 1])
            /\ nextConv' = nextConv + 1
            /\ now' = now + 1
            /\ inflight' = [inflight EXCEPT ![r].pc = "message", ![r].id = nextConv]
       ELSE /\ inflight' = Ended(r, DbError)
            /\ UNCHANGED <<conversations, nextConv, now>>
    /\ UNCHANGED <<users, messages, nextMsg, steps>>

\* create: the opening message is saved; the store rejects a conversation_id
\* that names no conversation.
CreateSaveMessage(r) ==
    /\ r \in CallsAt("create", "message")
    /\ IF Exists(conversations, inflight[r].id)
       THEN /\ messages' = Insert(messages, nextMsg,
                  [message_id |-> nextMsg,
                   conversation_id |-> inflight[r].id,
                   sender_id |-> inflight[r].caller,
                   sender_type |-> SenderStudent,
                   message_text |-> inflight[r].arg[2],
                   is_read |-> FALSE,
                   created_at |-> now + 1])
            /\ nextMsg' = nextMsg + 1
            /\ now' = now + 1
            /\ inflight' = Ended(r, OK)
       ELSE /\ inflight' = Ended(r, DbError)
            /\ UNCHANGED <<messages, nextMsg, now>>
    /\ UNCHANGED <<users, conversations, nextConv, steps>>

\* MessagesService.create up to its save: the lookup and the authorization
\* check.
MessageFind(caller, conversationId, message_text) ==
    /\ Begun
    /\ Exists(users, caller)
    /\ LET found == MessageCreateOutcome(conversationId, caller, users[caller].role)
       IN  inflight' = Insert(inflight, steps + 1,
               Call("message", caller, conversationId, message_text,
                    users[caller].role,
                    IF found = OK THEN "save" ELSE Done,
                    IF found = OK THEN Pending ELSE found))
    /\ UNCHANGED <<users, conversations, messages, nextConv, nextMsg, now>>

\* Mutant of MessageSave: the store accepts a conversation_id that names no
\* conversation.
MessageSaveUnchecked(r) ==
    /\ r \in CallsAt("message", "save")
    /\ messages' = Insert(messages, nextMsg,
           [message_id |-> nextMsg,
            conversation_id |-> inflight[r].id,
            sender_id |-> inflight[r].caller,
            sender_type |-> SenderTypeOf(inflight[r].loaded),
            message_text |-> inflight[r].arg,
            is_read |-> FALSE,
            created_at |-> now + 1])
    /\ nextMsg' = nextMsg + 1
    /\ now' = now + 1
    /\ inflight' = Ended(r, OK)
    /\ UNCHANGED <<users, conversations, nextConv, steps>>

\* MessagesService.create: the message is saved; the store rejects a
\* conversation_id that names no conversation.
MessageSave(r) ==
    /\ r \in CallsAt("message", "save")
    /\ IF Exists(conversations, inflight[r].id)
       THEN /\ messages' = Insert(messages, nextMsg,
                  [message_id |-> nextMsg,
                   conversation_id |-> inflight[r].id,
                   sender_id |-> inflight[r].caller,
                   sender_type |-> SenderTypeOf(inflight[r].loaded),
                   message_text |-> inflight[r].arg,
                   is_read |-> FALSE,
                   created_at |-> now + 1])
            /\ nextMsg' = nextMsg + 1
            /\ now' = now + 1
            /\ inflight' = Ended(r, OK)
       ELSE /\ inflight' = Ended(r, DbError)
            /\ UNCHANGED <<messages, nextMsg, now>>
    /\ UNCHANGED <<users, conversations, nextConv, steps>>

\* deleteUser: the user is looked up.
DeleteUserFindUser(userId) ==
    /\ Begun
    /\ inflight' = Insert(inflight, steps + 1,
           Call("deleteUser", userId, userId, NULL, {},
                IF DeleteUserOutcome(userId) = OK THEN "find" ELSE Done,
                IF DeleteUserOutcome(userId) = OK THEN Pending ELSE NotFound))
    /\ UNCHANGED <<users, conversations, messages, nextConv, nextMsg, now>>

\* deleteUser: the conversations of the user are looked up; with none, the
\* two deletes by conversation id are skipped.
DeleteUserFindConversations(r) ==
    /\ r \in CallsAt("deleteUser", "find")
    /\ LET conversationIds == ConversationsOfUser(inflight[r].id)
       IN  inflight' = [inflight EXCEPT
               ![r].loaded = conversationIds,
               ![r].pc = IF conversationIds = {} THEN "user" ELSE "messages"]
    /\ UNCHANGED <<users, conversations, messages, nextConv, nextMsg, now, steps>>

\* deleteUser: the messages of the conversations found are deleted.
DeleteUserMessages(r) ==
    /\ r \in CallsAt("deleteUser", "messages")
    /\ messages' = DeleteKeys(messages, MessagesIn(inflight[r].loaded))
    /\ inflight' = [inflight EXCEPT ![r].pc = "conversations"]
    /\ UNCHANGED <<users, conversations, nextConv, nextMsg, now, steps>>

\* deleteUser: the conversations found are deleted; the store rejects the
\* delete while a message refers to one of them.
DeleteUserConversations(r) ==
    /\ r \in CallsAt("deleteUser", "conversations")
    /\ IF MessagesIn(inflight[r].loaded) = {}
       THEN /\ conversations' = DeleteKeys(conversations, inflight[r].loaded)
            /\ inflight' = [inflight EXCEPT ![r].pc = "user"]
       ELSE /\ conversations' = conversations
            /\ inflight' = Ended(r, DbError)
    /\ UNCHANGED <<users, messages, nextConv, nextMsg, now, steps>>

\* deleteUser: the user is deleted; the store rejects the delete while a
\* conversation refers to the user.
DeleteUserRow(r) ==
    /\ r \in CallsAt("deleteUser", "user")
    /\ IF ConversationsOfUser(inflight[r].id) = {}
       THEN /\ users' = DeleteKeys(users, {inflight[r].id})
            /\ inflight' = Ended(r, OK)
       ELSE /\ users' = users
            /\ inflight' = Ended(r, DbError)
    /\ UNCHANGED <<conversations, messages, nextConv, nextMsg, now, steps>>

\* -------------------------------------------------------------------------
\* AuthService.register
\* -------------------------------------------------------------------------
\* The users that hold a username.
UsersNamed(username) == {u \in DOMAIN users : users[u].username = username}

\* register: the lookup by username.
RegisterOutcome(username) == IF UsersNamed(username) # {} THEN Conflict ELSE OK

\* The row register builds: the role defaults to STUDENT.  The id is
\* generated by the store; call number n gets the id "n" \o n.
NewUser(n, username, role) ==
    [user_id |-> "n" \o ToString(n),
     username |-> username,
     role |-> IF role = <<>> THEN STUDENT ELSE role[1]]

\* Mutant of InsertUser: the users table has no unique index on username.
InsertUserWithoutIndex(row) ==
    users' = Insert(users, row.user_id, row)

\* userRepository.save of a new user: the unique index on username rejects a
\* second row with the same username.  The conjunct that holds tells the
\* result.
InsertUser(row) ==
    \/ /\ UsersNamed(row.username) = {}
       /\ users' = Insert(users, row.user_id, row)
    \/ /\ UsersNamed(row.username) # {}
       /\ users' = users

\* POST /auth/register, with no other call between the lookup and the save.
Register(username, role) ==
    /\ Counted
    /\ IF RegisterOutcome(username) = OK
       THEN InsertUser(NewUser(steps + 1, username, role))
       ELSE users' = users
    /\ UNCHANGED <<conversations, messages, nextConv, nextMsg, now>>

\* register up to its save: the lookup by username.
RegisterFind(username, role) ==
    /\ Begun
    /\ inflight' = Insert(inflight, steps + 1,
           Call("register", NULL, NULL, username,
                NewUser(steps + 1, username, role),
                IF RegisterOutcome(username) = OK THEN "save" ELSE Done,
                IF RegisterOutcome(username) = OK THEN Pending ELSE Conflict))
    /\ UNCHANGED <<users, conversations, messages, nextConv, nextMsg, now>>

\* register: the save.
RegisterSave(r) ==
    /\ r \in CallsAt("register", "save")
    /\ InsertUser(inflight[r].loaded)
    /\ inflight' = Ended(r, IF UsersNamed(inflight[r].arg) = {} THEN OK ELSE DbError)
    /\ UNCHANGED <<conversations, messages, nextConv, nextMsg, now, steps>>

\* =========================================================================
\* Specifications
\* =========================================================================
\* Time passed on the store's clock between two inserts: none (equal
\* timestamps) or some.
Elapsed == {0, 1}

\* The conversation ids of the requests: every stored conversation, and one id
\* that names no conversation (generated keys are never reused).
ConvIds == DOMAIN conversations \cup {nextConv}

\* CreateMessageDto.message_text
MessageTexts == {"ok", "thanks"}

\* The message ids of the requests: every stored message, and one id that
\* names no message.
MsgIds == DOMAIN messages \cup {nextMsg}

\* CreateConversationDto.is_anonymous is optional: omitted (<<>>) or given.
OptionalBooleans == {<<>>, <<TRUE>>, <<FALSE>>}

\* UpdateConversationDto: both fields optional.
UpdateDto(status, assigned_to) == [status |-> status, assigned_to |-> assigned_to]

\* The priority queue: conversations of every urgency created at equal or
\* different times, their status set by an admin's update and their
\* assignment by an admin's assignToCounselor.
NextQueue ==
    \/ \E caller \in Students, category \in Categories,
          urgency \in ConversationUrgency, initialMessage \in Texts,
          elapsed \in Elapsed :
            Create(caller, category, urgency, <<>>, initialMessage, elapsed)
    \/ \E conversationId \in ConvIds, status \in ConversationStatus :
            Update("a1", conversationId, UpdateDto(status, NULL))
    \/ \E conversationId \in ConvIds, counselorId \in Counselors :
            AssignToCounselor("a1", conversationId, counselorId)

SpecQueue == Init /\ [][NextQueue]_vars

\* Access control and anonymity: conversations of both students, anonymous or
\* not, assigned, updated and toggled by every caller, on existing and on
\* missing conversation ids.
AccessDtos == {UpdateDto(status, assigned_to) :
                  status \in ConversationStatus \cup {NULL},
                  assigned_to \in Counselors \cup {NULL}}

NextAccess ==
    \/ \E caller \in UserIds, category \in Categories,
          is_anonymous \in OptionalBooleans, initialMessage \in Texts :
            Create(caller, category, MEDIUM, is_anonymous, initialMessage, 1)
    \/ \E caller \in UserIds, conversationId \in ConvIds, counselorId \in Counselors :
            AssignToCounselor(caller, conversationId, counselorId)
    \/ \E caller \in UserIds, conversationId \in ConvIds, dto \in AccessDtos :
            Update(caller, conversationId, dto)
    \/ \E caller \in UserIds, conversationId \in ConvIds :
            ToggleAnonymity(caller, conversationId)

SpecAccess == Init /\ [][NextAccess]_vars

\* Anonymity: conversations opened anonymously, toggled by every caller and
\* assigned by the admin and the counselors, so that a conversation that is
\* not anonymous has been toggled.
NextAnon ==
    \/ \E caller \in Students, category \in Categories, urgency \in {MEDIUM, EMERGENCY},
          initialMessage \in Texts, elapsed \in Elapsed :
            Create(caller, category, urgency, <<TRUE>>, initialMessage, elapsed)
    \/ \E caller \in UserIds, conversationId \in ConvIds :
            ToggleAnonymity(caller, conversationId)
    \/ \E caller \in Counselors \cup Admins, conversationId \in ConvIds,
          counselorId \in Counselors :
            AssignToCounselor(caller, conversationId, counselorId)

SpecAnon == Init /\ [][NextAnon]_vars

\* Creation and deletion: conversations with their opening messages, opened
\* (or attempted) by every caller with every anonymity flag, assigned by
\* the admin, answered by any caller, and users deleted by themselves or by
\* the admin (also users already deleted).
NextCascade ==
    \/ \E caller \in DOMAIN users, category \in Categories,
          is_anonymous \in OptionalBooleans, initialMessage \in Texts :
            Create(caller, category, MEDIUM, is_anonymous, initialMessage, 1)
    \/ \E conversationId \in ConvIds, counselorId \in Counselors :
            AssignToCounselor("a1", conversationId, counselorId)
    \/ \E caller \in DOMAIN users, conversationId \in ConvIds, message_text \in Texts :
            MessageCreate(caller, conversationId, message_text, 1)
    \/ \E caller \in DOMAIN users, id \in UserIds :
            DeleteUser(caller, id)

SpecCascade == Init /\ [][NextCascade]_vars

\* Messaging: conversations assigned by the admin, messages sent, and marked
\* read one by one or by conversation, by every caller, on existing and on
\* missing ids.
NextMessages ==
    \/ \E caller \in Students, category \in Categories, initialMessage \in Texts :
            Create(caller, category, MEDIUM, <<>>, initialMessage, 1)
    \/ \E conversationId \in ConvIds, counselorId \in Counselors :
            AssignToCounselor("a1", conversationId, counselorId)
    \/ \E caller \in UserIds, conversationId \in ConvIds, message_text \in MessageTexts,
          elapsed \in Elapsed :
            MessageCreate(caller, conversationId, message_text, elapsed)
    \/ \E caller \in UserIds, messageId \in MsgIds :
            MarkAsRead(caller, messageId)
    \/ \E caller \in UserIds, conversationId \in ConvIds :
            MarkConversationAsRead(caller, conversationId)

SpecMessages == Init /\ [][NextMessages]_vars

\* The life of a message: every operation of the three services, so that a
\* stored message meets each of them after it was sent.
NextLifecycle ==
    \/ \E caller \in Students, category \in Categories, initialMessage \in Texts :
            Create(caller, category, MEDIUM, <<>>, initialMessage, 1)
    \/ \E caller \in Counselors \cup Admins, conversationId \in ConvIds,
          counselorId \in Counselors :
            AssignToCounselor(caller, conversationId, counselorId)
    \/ \E caller \in Counselors \cup Admins, conversationId \in ConvIds,
          dto \in AccessDtos :
            Update(caller, conversationId, dto)
    \/ \E caller \in Students, conversationId \in ConvIds :
            ToggleAnonymity(caller, conversationId)
    \/ \E caller \in DOMAIN users, conversationId \in ConvIds,
          message_text \in MessageTexts :
            MessageCreate(caller, conversationId, message_text, 1)
    \/ \E caller \in DOMAIN users, messageId \in MsgIds :
            MarkAsRead(caller, messageId)
    \/ \E caller \in DOMAIN users, conversationId \in ConvIds :
            MarkConversationAsRead(caller, conversationId)
    \/ \E caller \in DOMAIN users, id \in UserIds :
            DeleteUser(caller, id)

SpecLifecycle == Init /\ [][NextLifecycle]_vars

\* An id that names no user (a uuid of no row).
NoUser == "nobody"

\* The assignee: conversations bound by assignToCounselor and by update to
\* the id of any user, of whatever role, or of no user.
AssigneeIds == UserIds \cup {NoUser}

NextAssignee ==
    \/ \E caller \in Students, category \in Categories, initialMessage \in Texts :
            Create(caller, category, MEDIUM, <<>>, initialMessage, 1)
    \/ \E caller \in Counselors \cup Admins, conversationId \in ConvIds,
          counselorId \in AssigneeIds :
            AssignToCounselor(caller, conversationId, counselorId)
    \/ \E caller \in Counselors \cup Admins, conversationId \in ConvIds,
          assigned_to \in AssigneeIds, status \in {NULL, S_RESOLVED} :
            Update(caller, conversationId, UpdateDto(status, assigned_to))

SpecAssignee == Init /\ [][NextAssignee]_vars

\* Races on one conversation: assignToCounselor and update calls of the
\* counselors and the admin, interleaved statement by statement.
RaceDtos == {UpdateDto(S_RESOLVED, NULL), UpdateDto(NULL, "c2")}

NextRace ==
    \/ \E caller \in Students, category \in Categories, initialMessage \in Texts :
            Create(caller, category, MEDIUM, <<>>, initialMessage, 1)
    \/ \E caller \in UserIds, conversationId \in ConvIds, counselorId \in Counselors :
            AssignToCounselorFind(caller, conversationId, counselorId)
    \/ \E r \in DOMAIN inflight : AssignToCounselorSave(r)
    \/ \E caller \in Counselors, conversationId \in ConvIds, dto \in RaceDtos :
            UpdateFind(caller, conversationId, dto)
    \/ \E r \in DOMAIN inflight : UpdateSave(r)

SpecRace == Init /\ [][NextRace]_vars

\* deleteUser, MessagesService.create and ConversationsService.create
\* interleaved statement by statement.
NextIntegrity ==
    \/ \E caller \in Students, category \in Categories, initialMessage \in Texts :
            CreateBegin(caller, category, initialMessage)
    \/ \E r \in DOMAIN inflight : CreateSaveConversation(r)
    \/ \E r \in DOMAIN inflight : CreateSaveMessage(r)
    \/ \E caller \in Students \cup Admins, conversationId \in ConvIds,
          message_text \in Texts :
            MessageFind(caller, conversationId, message_text)
    \/ \E r \in DOMAIN inflight : MessageSave(r)
    \/ \E userId \in Students \cup Admins : DeleteUserFindUser(userId)
    \/ \E r \in DOMAIN inflight : DeleteUserFindConversations(r)
    \/ \E r \in DOMAIN inflight : DeleteUserMessages(r)
    \/ \E r \in DOMAIN inflight : DeleteUserConversations(r)
    \/ \E r \in DOMAIN inflight : DeleteUserRow(r)

SpecIntegrity == Init /\ [][NextIntegrity]_vars

\* Registrations interleaved statement by statement, and users deleting
\* their own account.
Usernames == {RealName("s1"), "bob", "eve"}
OptionalRoles == {<<>>, <<COUNSELOR>>}

NextRegister ==
    \/ \E username \in Usernames, role \in OptionalRoles : RegisterFind(username, role)
    \/ \E r \in DOMAIN inflight : RegisterSave(r)
    \/ \E caller \in DOMAIN users : DeleteUser(caller, caller)

SpecRegister == Init /\ [][NextRegister]_vars

\* Every handler that writes, called by every user with ids that exist and
\* ids that do not, one call at a time.
NextFailures ==
    \/ \E caller \in DOMAIN users, category \in Categories, initialMessage \in Texts :
            Create(caller, category, MEDIUM, <<>>, initialMessage, 1)
    \/ \E caller \in DOMAIN users, conversationId \in ConvIds :
            AssignToCounselor(caller, conversationId, "c1")
    \/ \E caller \in DOMAIN users, conversationId \in ConvIds :
            Update(caller, conversationId, UpdateDto(S_RESOLVED, NULL))
    \/ \E caller \in DOMAIN users, conversationId \in ConvIds :
            ToggleAnonymity(caller, conversationId)
    \/ \E caller \in DOMAIN users, conversationId \in ConvIds :
            MessageCreate(caller, conversationId, "ok", 1)
    \/ \E caller \in DOMAIN users, messageId \in MsgIds :
            MarkAsRead(caller, messageId)
    \/ \E caller \in DOMAIN users, conversationId \in ConvIds :
            MarkConversationAsRead(caller, conversationId)
    \/ \E caller \in DOMAIN users, id \in UserIds :
            DeleteUser(caller, id)
    \/ \E username \in Usernames : Register(username, <<>>)

SpecFailures == Init /\ [][NextFailures]_vars

\* =========================================================================
\* Properties of the priority queue (checked under SpecQueue)
\* =========================================================================
StatusArgs == ConversationStatus \cup {NULL}

\* The conversation ids of a returned list, in order.
IdsOf(result) == [i \in 1..Len(result) |-> result[i].conversation.conversation_id]

\* u is a more urgent level than v.
MoreUrgent(u, v) ==
    <<u, v>> \in {<<EMERGENCY, HIGH>>, <<EMERGENCY, MEDIUM>>, <<EMERGENCY, LOW>>,
                  <<HIGH, MEDIUM>>, <<HIGH, LOW>>, <<MEDIUM, LOW>>}

\* The stored conversations a status/assignedTo filter selects.
Selected(status, assignedTo) ==
    {c \in DOMAIN conversations :
        /\ IF status = NULL
           THEN conversations[c].status \in {S_NEW, S_IN_PROGRESS}
           ELSE conversations[c].status = status
        /\ assignedTo = NULL \/ conversations[c].assigned_to = assignedTo}

\* C1: for every store and every status/assignedTo filter, findByPriority
\* returns exactly the stored conversations matching the filter, each once,
\* no more urgent conversation after a less urgent one, and within one
\* urgency level created_at non-decreasing.
C1_FindByPriorityRanksExactlyTheMatches ==
    \A status \in StatusArgs, assignedTo \in UserIds \cup {NULL} :
        LET results == FindByPriority(status, assignedTo)
            selected == Selected(status, assignedTo)
        IN  /\ results # {}
            /\ \A r \in results :
                /\ Len(r) = Cardinality(selected)
                /\ {IdsOf(r)[i] : i \in 1..Len(r)} = selected
                /\ \A i \in 1..Len(r) :
                      r[i].conversation = conversations[IdsOf(r)[i]]
                /\ \A i, j \in 1..Len(r) :
                      i < j =>
                        /\ ~MoreUrgent(r[j].conversation.urgency,
                                       r[i].conversation.urgency)
                        /\ r[i].conversation.urgency = r[j].conversation.urgency
                             => r[i].conversation.created_at
                                    <= r[j].conversation.created_at

\* C1 witness: a queue of three conversations, two of one urgency created at
\* different times and one of another urgency, returned in an order that is
\* not the insertion order.
C1_Witness ==
    \E r \in FindByPriority(NULL, NULL) :
        /\ Len(r) = 3
        /\ \E i, j \in 1..3 :
              /\ i < j
              /\ r[i].conversation.urgency = r[j].conversation.urgency
              /\ r[i].conversation.created_at < r[j].conversation.created_at
        /\ \E i, j \in 1..3 :
              /\ i < j
              /\ MoreUrgent(r[i].conversation.urgency, r[j].conversation.urgency)
              /\ IdsOf(r)[i] > IdsOf(r)[j]

\* The scenario of C2: student A's conversation a (emergency) and student B's
\* conversation b (low, created later) are the stored conversations, as
\* created: unassigned and NEW.
ScenarioEmergencyThenLow(a, b) ==
    /\ DOMAIN conversations = {a, b}
    /\ conversations[a].user_id \in Students
    /\ conversations[b].user_id \in Students \ {conversations[a].user_id}
    /\ conversations[a].urgency = EMERGENCY
    /\ conversations[b].urgency = LOW
    /\ conversations[a].created_at < conversations[b].created_at
    /\ \A c \in {a, b} : conversations[c].assigned_to = NULL
    /\ \A c \in {a, b} : conversations[c].status = S_NEW

\* The result is the list [a, b], both with status NEW.
IsListOfBothNew(result, a, b) ==
    /\ IdsOf(result) = <<a, b>>
    /\ \A i \in 1..2 : result[i].conversation.status = S_NEW

\* C2 as stated: in the scenario, a counselor's priority queue without a
\* status filter is [A's conversation, B's conversation], both NEW.
C2_CounselorGetsBoth ==
    \A a, b \in DOMAIN conversations :
        ScenarioEmergencyThenLow(a, b) =>
            \A caller \in Counselors \cap DOMAIN users :
                /\ GetPriorityQueueOutcome(caller) = OK
                /\ \A r \in GetPriorityQueue(caller, NULL) : IsListOfBothNew(r, a, b)

\* C2 amended: in the scenario, an admin's priority queue without a status
\* filter is [A's conversation, B's conversation], both NEW, and a counselor's
\* is empty.
C2_AdminGetsBothCounselorNone ==
    \A a, b \in DOMAIN conversations :
        ScenarioEmergencyThenLow(a, b) =>
            /\ \A caller \in Admins \cap DOMAIN users :
                /\ GetPriorityQueueOutcome(caller) = OK
                /\ \A r \in GetPriorityQueue(caller, NULL) : IsListOfBothNew(r, a, b)
            /\ \A caller \in Counselors \cap DOMAIN users :
                /\ GetPriorityQueueOutcome(caller) = OK
                /\ GetPriorityQueue(caller, NULL) = {<<>>}

\* C2 witness: the scenario's store, the later conversation being the LOW one.
C2_Witness ==
    \E a, b \in DOMAIN conversations :
        /\ ScenarioEmergencyThenLow(a, b)
        /\ \E r \in GetPriorityQueue("a1", NULL) : Len(r) = 2

\* C3: without a status the queue holds only NEW and IN_PROGRESS
\* conversations; with a status s it holds only conversations of status s.
C3_QueueStatusFilter ==
    \A caller \in DOMAIN users :
        GetPriorityQueueOutcome(caller) = OK =>
            \A status \in StatusArgs :
                \A r \in GetPriorityQueue(caller, status) :
                    \A i \in 1..Len(r) :
                        IF status = NULL
                        THEN r[i].conversation.status \in {S_NEW, S_IN_PROGRESS}
                        ELSE r[i].conversation.status = status

\* C3 witness: a RESOLVED or CLOSED conversation that the queue asked for
\* with that status returns, next to an open one the default queue returns.
C3_Witness ==
    /\ \E s \in {S_RESOLVED, S_CLOSED} :
          \E r \in GetPriorityQueue("a1", s) : Len(r) >= 1
    /\ \E r \in GetPriorityQueue("a1", NULL) : Len(r) >= 1

\* C4: a counselor's queue holds only conversations assigned to the caller;
\* an admin's queue holds every conversation passing the status filter.
C4_QueueAssignmentScope ==
    \A caller \in DOMAIN users :
        GetPriorityQueueOutcome(caller) = OK =>
            \A status \in StatusArgs :
                \A r \in GetPriorityQueue(caller, status) :
                    /\ users[caller].role = COUNSELOR =>
                          \A i \in 1..Len(r) : r[i].conversation.assigned_to = caller
                    /\ users[caller].role = ADMIN =>
                          {IdsOf(r)[i] : i \in 1..Len(r)} = Selected(status, NULL)

\* C4 witness: one conversation assigned to c1 and one unassigned; the admin
\* gets both, c1 gets one, c2 gets none.
C4_Witness ==
    /\ \E c \in DOMAIN conversations : conversations[c].assigned_to = "c1"
    /\ \E c \in DOMAIN conversations : conversations[c].assigned_to = NULL
    /\ \E r \in GetPriorityQueue("a1", NULL) : Len(r) = 2
    /\ \E r \in GetPriorityQueue("c1", NULL) : Len(r) = 1
    /\ \E r \in GetPriorityQueue("c2", NULL) : Len(r) = 0

\* =========================================================================
\* Properties of the access rules (checked under SpecAccess)
\* =========================================================================

\* C5: a student never obtains a conversation of another user: the list of
\* GET /conversations holds only the caller's conversations, findAll with role
\* STUDENT is Forbidden, findOne on another student's conversation is
\* Forbidden, and a conversation findOne does return is the caller's.
C5_StudentSeesOnlyOwnConversations ==
    \A caller \in DOMAIN users :
        users[caller].role = STUDENT =>
            /\ FindAllRouteOutcome(caller) = OK
            /\ \A r \in FindAllRoute(caller) :
                  \A i \in 1..Len(r) : r[i].conversation.user_id = caller
            /\ FindAllOutcome(users[caller].role) = Forbidden
            /\ \A c \in DOMAIN conversations :
                  conversations[c].user_id # caller
                      => FindOneOutcome(c, caller, users[caller].role) = Forbidden
            /\ \A c \in ConvIds :
                  FindOneOutcome(c, caller, users[caller].role) = OK
                      => FindOne(c).conversation.user_id = caller

\* C5 witness: s1 and s2 each own a conversation; s1 lists one conversation
\* and is refused s2's.
C5_Witness ==
    /\ \E r \in FindAllRoute("s1") : Len(r) = 1
    /\ \E c \in DOMAIN conversations :
          /\ conversations[c].user_id = "s2"
          /\ FindOneOutcome(c, "s1", STUDENT) = Forbidden
    /\ \E c \in DOMAIN conversations : FindOneOutcome(c, "s1", STUDENT) = OK

\* A step that is a call by counselor d: any handler a counselor can invoke.
CallBy(d) ==
    \/ \E c \in ConvIds, dto \in AccessDtos : Update(d, c, dto)
    \/ \E c \in ConvIds, counselorId \in Counselors : AssignToCounselor(d, c, counselorId)
    \/ \E c \in ConvIds : ToggleAnonymity(d, c)
    \/ \E c \in ConvIds, text \in Texts : MessageCreate(d, c, text, 1)
    \/ \E category \in Categories, is_anonymous \in OptionalBooleans, text \in Texts :
            Create(d, category, MEDIUM, is_anonymous, text, 1)
    \/ DeleteUser(d, d)

\* C6 as stated: once a conversation is assigned to counselor C, no call by
\* another counselor D changes its status or its assigned_to.
C6_OtherCounselorNeverMutates ==
    [][\A d \in Counselors, x \in DOMAIN conversations :
          (CallBy(d) /\ conversations[x].assigned_to \in Counselors \ {d})
              => /\ x \in DOMAIN conversations'
                 /\ conversations'[x].status = conversations[x].status
                 /\ conversations'[x].assigned_to = conversations[x].assigned_to]_vars

\* C7 (outcomes): for an existing conversation X, update by a counselor other
\* than X's assignee is Forbidden; update by a counselor succeeds only when X
\* is unassigned or assigned to the caller; update by a student is Forbidden
\* whatever the id; update by an admin is never Forbidden and succeeds on
\* every existing conversation.
C7_UpdateOutcomes ==
    \A caller \in DOMAIN users, x \in ConvIds, dto \in AccessDtos :
        LET result == UpdateOutcome(x, dto, caller, users[caller].role)
        IN  /\ users[caller].role = STUDENT => result = Forbidden
            /\ (users[caller].role = COUNSELOR /\ x \in DOMAIN conversations) =>
                  /\ conversations[x].assigned_to \notin {NULL, caller}
                        => result = Forbidden
                  /\ result = OK => conversations[x].assigned_to \in {NULL, caller}
            /\ users[caller].role = ADMIN =>
                  /\ result # Forbidden
                  /\ x \in DOMAIN conversations => result = OK

\* C7 (effect): an update that ends Forbidden leaves the conversations as
\* they were.
C7_ForbiddenUpdateChangesNothing ==
    \A caller \in DOMAIN users, x \in ConvIds, dto \in AccessDtos :
        (/\ Update(caller, x, dto)
         /\ UpdateOutcome(x, dto, caller, users[caller].role) = Forbidden)
            => UNCHANGED <<users, conversations, messages>>

\* C7: after counselor C is assigned to X, an update by another counselor D is
\* Forbidden and changes nothing; a counselor's update succeeds only on an
\* unassigned conversation or one assigned to the caller; a student's update
\* is always Forbidden; an admin's update is unrestricted.
C7_UpdateOnlyByAssigneeOrAdmin ==
    /\ []C7_UpdateOutcomes
    /\ [][C7_ForbiddenUpdateChangesNothing]_vars

\* C7 witness: X is assigned to c1 and IN_PROGRESS; c2's update is Forbidden,
\* c1's and the admin's succeed.
C7_Witness ==
    \E x \in DOMAIN conversations :
        /\ conversations[x].assigned_to = "c1"
        /\ conversations[x].status = S_IN_PROGRESS
        /\ UpdateOutcome(x, UpdateDto(S_RESOLVED, NULL), "c2", COUNSELOR) = Forbidden
        /\ UpdateOutcome(x, UpdateDto(S_RESOLVED, NULL), "c1", COUNSELOR) = OK
        /\ UpdateOutcome(x, UpdateDto(S_RESOLVED, NULL), "a1", ADMIN) = OK

\* =========================================================================
\* Properties of anonymity (checked under SpecAnon)
\* =========================================================================

\* The username findOne returns for conversation x.
ShownUsername(x) == FindOne(x).user[1].username

\* The username stored for the owner of conversation x.
StoredUsername(x) == users[conversations[x].user_id].username

\* C9 (reads): for every caller findOne admits, an anonymous conversation is
\* returned with the username 'Anonymous' and any other with the username
\* stored for its owner; toggling a conversation twice gives back its
\* is_anonymous.
C9_FindOneUsername ==
    \A caller \in DOMAIN users, x \in DOMAIN conversations :
        /\ FindOneOutcome(x, caller, users[caller].role) = OK =>
              ShownUsername(x) = IF conversations[x].is_anonymous
                                 THEN "Anonymous"
                                 ELSE StoredUsername(x)
        /\ ToggleRow(ToggleRow(conversations[x])).is_anonymous
              = conversations[x].is_anonymous

\* C9 (toggle): a toggleAnonymity by the owner succeeds and inverts
\* is_anonymous; when it ends FALSE the next findOne returns the stored
\* username, when it ends TRUE the placeholder; one more toggle would give
\* back the value before the call.
C9_ToggleStep ==
    \A caller \in Students, x \in DOMAIN conversations :
        (ToggleAnonymity(caller, x) /\ conversations[x].user_id = caller) =>
            /\ ToggleOutcome(x, caller, users[caller].role) = OK
            /\ conversations'[x].is_anonymous = ~conversations[x].is_anonymous
            /\ ~conversations'[x].is_anonymous
                  => ShownUsername(x)' = RealName(caller)
            /\ conversations'[x].is_anonymous => ShownUsername(x)' = "Anonymous"
            /\ ToggleRow(conversations'[x]).is_anonymous = conversations[x].is_anonymous

\* C9: findOne shows 'Anonymous' for an anonymous conversation to every
\* caller permitted to view it; after the owner toggles it to not anonymous,
\* findOne shows the real stored username; two consecutive toggles restore
\* is_anonymous.
C9_AnonymousUntilToggled ==
    /\ []C9_FindOneUsername
    /\ [][C9_ToggleStep]_vars

\* C9 witness: a conversation opened anonymously has been toggled and is
\* assigned to c1; its owner, c1 and the admin all may view it and get the
\* real username.
C9_Witness ==
    \E x \in DOMAIN conversations :
        /\ ~conversations[x].is_anonymous
        /\ conversations[x].assigned_to = "c1"
        /\ \A caller \in {conversations[x].user_id, "c1", "a1"} :
              FindOneOutcome(x, caller, users[caller].role) = OK
        /\ ShownUsername(x) = StoredUsername(x)
        /\ ShownUsername(x) # "Anonymous"

\* The lists findAll and findByPriority may return to a caller.
ListsFor(caller) ==
    (IF FindAllOutcome(users[caller].role) = OK
     THEN FindAll(users[caller].role, caller) ELSE {})
    \cup
    (IF GetPriorityQueueOutcome(caller) = OK
     THEN UNION {GetPriorityQueue(caller, status) : status \in StatusArgs} ELSE {})

\* C10 as stated: findOne, findAll and findByPriority return the username
\* 'Anonymous' for every anonymous conversation, to every caller, and the
\* stored usernames stay as registered.
C10_EveryReadHidesUsername ==
    /\ \A u \in DOMAIN users : users[u].username = RealName(u)
    /\ \A caller \in DOMAIN users :
          /\ \A x \in DOMAIN conversations :
                (/\ conversations[x].is_anonymous
                 /\ FindOneOutcome(x, caller, users[caller].role) = OK)
                    => ShownUsername(x) = "Anonymous"
          /\ \A r \in ListsFor(caller) :
                \A i \in 1..Len(r) :
                    r[i].conversation.is_anonymous
                        => r[i].user[1].username = "Anonymous"

\* =========================================================================
\* Properties of user deletion (checked under SpecCascade)
\* =========================================================================

\* C8 (step): a deleteUser(U) that succeeds removes the user row U, exactly
\* the conversations with user_id = U or assigned_to = U and exactly their
\* messages; every other row is as before; afterwards deleteUser(U) and
\* findOne on a removed conversation give NotFound.
C8_DeleteStep ==
    \A caller \in DOMAIN users, U \in DOMAIN users :
        (DeleteUser(caller, U) /\ DeleteRouteOutcome(caller, U) = OK) =>
            LET gone == {c \in DOMAIN conversations :
                            conversations[c].user_id = U \/ conversations[c].assigned_to = U}
                goneMessages == {m \in DOMAIN messages : messages[m].conversation_id \in gone}
            IN  /\ DOMAIN users' = DOMAIN users \ {U}
                /\ \A u \in DOMAIN users' : users'[u] = users[u]
                /\ DOMAIN conversations' = DOMAIN conversations \ gone
                /\ \A c \in DOMAIN conversations' : conversations'[c] = conversations[c]
                /\ DOMAIN messages' = DOMAIN messages \ goneMessages
                /\ \A m \in DOMAIN messages' : messages'[m] = messages[m]
                /\ DeleteUserOutcome(U)' = NotFound
                /\ \A c \in gone, reader \in DOMAIN users' :
                      FindOneOutcome(c, reader, users[reader].role)' = NotFound

\* C8 (store): no conversation names a deleted user as owner or assignee and
\* no message belongs to a deleted conversation; deleteUser on a deleted user
\* is NotFound.
C8_NothingLeftOfDeletedUsers ==
    /\ \A c \in DOMAIN conversations :
          /\ conversations[c].user_id \in DOMAIN users
          /\ conversations[c].assigned_to \in DOMAIN users \cup {NULL}
    /\ \A m \in DOMAIN messages : messages[m].conversation_id \in DOMAIN conversations
    /\ \A U \in UserIds \ DOMAIN users : DeleteUserOutcome(U) = NotFound

\* C8: after deleteUser(U) of an existing user the store holds no
\* conversation of U (as owner or assignee), none of their messages and no
\* user row U; all other conversations and messages are unchanged; a later
\* deleteUser(U) or findOne on a removed conversation gives NotFound.
C8_DeleteUserCascade ==
    /\ []C8_NothingLeftOfDeletedUsers
    /\ [][C8_DeleteStep]_vars

\* C8 witness: a user has been deleted and a conversation with its message
\* went with it, while another conversation and its message are still stored.
C8_Witness ==
    /\ \E U \in UserIds : U \notin DOMAIN users
    /\ \E c \in 1..(nextConv - 1) : c \notin DOMAIN conversations
    /\ \E m \in 1..(nextMsg - 1) : m \notin DOMAIN messages
    /\ \E c \in DOMAIN conversations : MessagesOf(c) # {}

\* =========================================================================
\* Properties of messaging (checked under SpecMessages)
\* =========================================================================

\* The sender type of the other party for a caller's role (an admin sends as
\* counselor, so its other party is the student).
OtherParty(userRole) == IF userRole = STUDENT THEN "counselor" ELSE "student"

\* The messages of conversation x written by the other party of userRole.
FromOtherParty(x, userRole) ==
    {m \in DOMAIN messages :
        /\ messages[m].conversation_id = x
        /\ messages[m].sender_type = OtherParty(userRole)}

\* C11: a markConversationAsRead that is admitted sets is_read on exactly the
\* messages of the conversation sent by the other party and changes no other
\* message; applied again at once it is admitted again, matches no message
\* and so leaves every is_read as after the first application.
C11_MarkAllStep ==
    \A caller \in DOMAIN users, x \in DOMAIN conversations :
        (/\ MarkConversationAsRead(caller, x)
         /\ MarkConversationAsReadOutcome(x, caller, users[caller].role) = OK) =>
            /\ DOMAIN messages' = DOMAIN messages
            /\ \A m \in DOMAIN messages :
                  messages'[m] =
                      IF m \in FromOtherParty(x, users[caller].role)
                      THEN [messages[m] EXCEPT !.is_read = TRUE]
                      ELSE messages[m]
            /\ MarkConversationAsReadOutcome(x, caller, users[caller].role)' = OK
            /\ MatchedByMarkAll(x, users[caller].role)' = {}

C11_MarkAllIdempotent == [][C11_MarkAllStep]_vars

\* C11 witness: in one conversation the student's message is read and the
\* message sent as counselor is not: a counselor-side caller has marked the
\* conversation, and a second marking by it matches nothing.
C11_Witness ==
    \E x \in DOMAIN conversations :
        /\ \E m \in DOMAIN messages :
              /\ messages[m].conversation_id = x
              /\ messages[m].sender_type = SenderStudent
              /\ messages[m].is_read
        /\ \E m \in DOMAIN messages :
              /\ messages[m].conversation_id = x
              /\ messages[m].sender_type = SenderCounselor
              /\ ~messages[m].is_read
        /\ MatchedByMarkAll(x, ADMIN) = {}
        /\ MatchedByMarkAll(x, STUDENT) # {}

\* C12 as stated: whatever the caller's role, markAsRead on a message the
\* caller sent is Forbidden.
C12_NobodyMarksOwnMessage ==
    \A caller \in DOMAIN users, m \in DOMAIN messages :
        messages[m].sender_id = caller
            => MarkAsReadOutcome(m, caller, users[caller].role) = Forbidden

\* C13 (outcomes): sending into a missing conversation is NotFound; a student
\* sends exactly into the conversations it owns and a counselor exactly into
\* those assigned to it, every other attempt being Forbidden.
C13_SendOutcomes ==
    \A caller \in DOMAIN users, x \in ConvIds :
        LET result == MessageCreateOutcome(x, caller, users[caller].role)
        IN  IF x \notin DOMAIN conversations THEN result = NotFound
            ELSE /\ users[caller].role = STUDENT =>
                      result = IF conversations[x].user_id = caller
                               THEN OK ELSE Forbidden
                 /\ users[caller].role = COUNSELOR =>
                      result = IF conversations[x].assigned_to = caller
                               THEN OK ELSE Forbidden

\* C13 (effect): a send that is refused adds no message and changes none; a
\* send that is admitted adds exactly one.
C13_SendStep ==
    \A caller \in DOMAIN users, x \in ConvIds, text \in MessageTexts, elapsed \in Elapsed :
        MessageCreate(caller, x, text, elapsed) =>
            IF MessageCreateOutcome(x, caller, users[caller].role) = OK
            THEN /\ DOMAIN messages' = DOMAIN messages \cup {nextMsg}
                 /\ nextMsg \notin DOMAIN messages
                 /\ messages'[nextMsg].conversation_id = x
                 /\ messages'[nextMsg].sender_id = caller
            ELSE UNCHANGED <<users, conversations, messages>>

\* C13: a student sends only into its own conversation and a counselor only
\* into a conversation assigned to it (not into an unassigned one); any other
\* send is Forbidden, or NotFound for a missing conversation, and adds no
\* message.
C13_SendOnlyIntoOwnOrAssigned ==
    /\ []C13_SendOutcomes
    /\ [][C13_SendStep]_vars

\* C13 witness: c1 has sent into the conversation assigned to it; c2 and the
\* other student are refused, and c1 is refused on no conversation it holds.
C13_Witness ==
    \E x \in DOMAIN conversations, m \in DOMAIN messages :
        /\ conversations[x].assigned_to = "c1"
        /\ messages[m].conversation_id = x
        /\ messages[m].sender_id = "c1"
        /\ MessageCreateOutcome(x, "c2", COUNSELOR) = Forbidden
        /\ \E s \in Students : MessageCreateOutcome(x, s, STUDENT) = Forbidden
        /\ MessageCreateOutcome(nextConv, "c1", COUNSELOR) = NotFound

\* =========================================================================
\* Properties of the life of a message (checked under SpecLifecycle)
\* =========================================================================

\* C14 (step): a message that appears has the sender type of its sender's
\* role (student for a STUDENT, counselor for any other role), and a message
\* already stored keeps its sender_type and sender_id whatever the operation.
C14_SenderStep ==
    /\ \A m \in DOMAIN messages' \ DOMAIN messages :
          /\ messages'[m].sender_id \in DOMAIN users
          /\ messages'[m].sender_type =
                IF users[messages'[m].sender_id].role = STUDENT
                THEN "student" ELSE "counselor"
    /\ \A m \in DOMAIN messages' \cap DOMAIN messages :
          /\ messages'[m].sender_type = messages[m].sender_type
          /\ messages'[m].sender_id = messages[m].sender_id

\* C14 (store): the opening message of every conversation is its owner's and
\* has sender type student.
C14_OpeningMessageIsStudent ==
    \A c \in DOMAIN conversations :
        \E m \in DOMAIN messages :
            /\ messages[m].conversation_id = c
            /\ messages[m].sender_id = conversations[c].user_id
            /\ messages[m].sender_type = "student"
            /\ \A k \in DOMAIN messages :
                  messages[k].conversation_id = c => m <= k

\* C14: sender_type is fixed at creation from the caller's role (the opening
\* message being the student's) and no later operation changes the
\* sender_type or the sender_id of a stored message.
C14_SenderTypeFixedAtCreation ==
    /\ []C14_OpeningMessageIsStudent
    /\ [][C14_SenderStep]_vars

\* C14 witness: the admin's message, stored as counselor, has since been
\* marked read and still names the admin as counselor.
C14_Witness ==
    \E m \in DOMAIN messages :
        /\ messages[m].sender_id = "a1"
        /\ messages[m].sender_type = SenderCounselor
        /\ messages[m].is_read

\* C15 (step): a stored message that stays keeps its text, sender and
\* conversation, and its is_read is not taken back; a stored message that
\* goes does so with its whole conversation, of which a user deleted in the
\* same step was the owner or the assignee.
C15_MessageStep ==
    \A m \in DOMAIN messages :
        IF m \in DOMAIN messages'
        THEN /\ messages[m].is_read => messages'[m].is_read
             /\ messages'[m].message_text = messages[m].message_text
             /\ messages'[m].sender_id = messages[m].sender_id
             /\ messages'[m].sender_type = messages[m].sender_type
             /\ messages'[m].conversation_id = messages[m].conversation_id
        ELSE LET c == messages[m].conversation_id
             IN  /\ c \notin DOMAIN conversations'
                 /\ \A k \in DOMAIN messages' : messages'[k].conversation_id # c
                 /\ \E U \in DOMAIN users \ DOMAIN users' :
                       \/ conversations[c].user_id = U
                       \/ conversations[c].assigned_to = U

\* C15: is_read of a message is monotonic, its text, sender and conversation
\* never change, and it leaves the store only in the cascade of deleteUser.
C15_MessageOnlyReadOrCascaded == [][C15_MessageStep]_vars

\* C15 witness: a message has been marked read and a user has been deleted
\* since the store was empty; the message, not in that user's cascade, is
\* still stored and still read.
C15_Witness ==
    /\ \E m \in DOMAIN messages : messages[m].is_read
    /\ \E U \in UserIds : U \notin DOMAIN users

\* =========================================================================
\* Properties of the unread count (checked under SpecMessages)
\* =========================================================================

\* The conversations whose messages count for a caller: owned, for a student;
\* assigned, for a counselor.
CountedConversations(caller) ==
    {c \in DOMAIN conversations :
        IF users[caller].role = STUDENT
        THEN conversations[c].user_id = caller
        ELSE conversations[c].assigned_to = caller}

\* The unread messages of conversation c sent by the other party of caller.
UnreadIn(c, caller) ==
    {m \in FromOtherParty(c, users[caller].role) : ~messages[m].is_read}

RECURSIVE SumOfUnread(_, _)
SumOfUnread(cs, caller) ==
    IF cs = {} THEN 0
    ELSE LET c == CHOOSE c \in cs : TRUE
         IN  Cardinality(UnreadIn(c, caller)) + SumOfUnread(cs \ {c}, caller)

\* C16 (count): for a student and for a counselor getUnreadCount is the sum,
\* over the conversations owned by (assigned to) the caller, of the unread
\* messages sent by the other party.
C16_CountIsSumOverConversations ==
    \A caller \in DOMAIN users :
        users[caller].role \in {STUDENT, COUNSELOR} =>
            GetUnreadCount(caller, users[caller].role)
                = SumOfUnread(CountedConversations(caller), caller)

\* C16 (marking): markConversationAsRead by the caller on one of those
\* conversations is admitted and takes exactly that conversation's share off
\* the count; when no other conversation has a share left the count is 0.
C16_MarkStep ==
    \A caller \in DOMAIN users :
        users[caller].role \in {STUDENT, COUNSELOR} =>
            \A x \in CountedConversations(caller) :
                MarkConversationAsRead(caller, x) =>
                    /\ MarkConversationAsReadOutcome(x, caller, users[caller].role) = OK
                    /\ UnreadIn(x, caller)' = {}
                    /\ GetUnreadCount(caller, users[caller].role)'
                          = GetUnreadCount(caller, users[caller].role)
                              - Cardinality(UnreadIn(x, caller))
                    /\ (\A y \in CountedConversations(caller) \ {x} :
                            UnreadIn(y, caller) = {})
                          => GetUnreadCount(caller, users[caller].role)' = 0

\* C16: getUnreadCount of a student counts the unread counselor messages of
\* its own conversations, that of a counselor the unread student messages of
\* the conversations assigned to it; once the caller has run
\* markConversationAsRead on each of them the count is 0.
C16_UnreadCount ==
    /\ []C16_CountIsSumOverConversations
    /\ [][C16_MarkStep]_vars

\* C16 witness: a student owns a conversation holding a counselor-side message
\* that is read, and its count is 0 while the sender's opening message is
\* still unread for the other side.
C16_Witness ==
    \E s \in Students, c \in DOMAIN conversations, m \in DOMAIN messages :
        /\ conversations[c].user_id = s
        /\ messages[m].conversation_id = c
        /\ messages[m].sender_type = SenderCounselor
        /\ messages[m].is_read
        /\ GetUnreadCount(s, STUDENT) = 0
        /\ GetUnreadCount("a1", ADMIN) > 0

\* =========================================================================
\* Properties of conversation creation (checked under SpecCascade)
\* =========================================================================

\* C17 (step): a create by a student adds one conversation, owned by the
\* caller, NEW, unassigned, anonymous as requested (not anonymous when the
\* flag is omitted), and one message in it, sent by the caller as student
\* and unread; a create by any other role is Forbidden; in both cases every
\* row already stored is as before.
C17_CreateStep ==
    \A caller \in DOMAIN users, category \in Categories,
       is_anonymous \in OptionalBooleans, text \in Texts :
        Create(caller, category, MEDIUM, is_anonymous, text, 1) =>
            /\ users' = users
            /\ \A c \in DOMAIN conversations :
                  c \in DOMAIN conversations' /\ conversations'[c] = conversations[c]
            /\ \A m \in DOMAIN messages :
                  m \in DOMAIN messages' /\ messages'[m] = messages[m]
            /\ IF users[caller].role = STUDENT
               THEN \E c \in DOMAIN conversations' \ DOMAIN conversations,
                       m \in DOMAIN messages' \ DOMAIN messages :
                        /\ DOMAIN conversations' = DOMAIN conversations \cup {c}
                        /\ DOMAIN messages' = DOMAIN messages \cup {m}
                        /\ conversations'[c].user_id = caller
                        /\ conversations'[c].status = "new"
                        /\ conversations'[c].assigned_to = NULL
                        /\ conversations'[c].is_anonymous = (is_anonymous = <<TRUE>>)
                        /\ conversations'[c].category = category
                        /\ messages'[m].conversation_id = c
                        /\ messages'[m].sender_id = caller
                        /\ messages'[m].sender_type = "student"
                        /\ messages'[m].message_text = text
                        /\ messages'[m].is_read = FALSE
               ELSE /\ CreateOutcome(caller) = Forbidden
                    /\ conversations' = conversations
                    /\ messages' = messages

\* C17 (store): every stored conversation holds a message sent by its owner
\* as student.
C17_NoConversationWithoutOpeningMessage ==
    \A c \in DOMAIN conversations :
        \E m \in DOMAIN messages :
            /\ messages[m].conversation_id = c
            /\ messages[m].sender_id = conversations[c].user_id
            /\ messages[m].sender_type = SenderStudent

C18_AssignOutcomes ==
    \A caller \in DOMAIN users, x \in ConvIds, counselorId \in Counselors :
        LET result == AssignOutcome(x, counselorId, users[caller].role)
        IN  /\ users[caller].role = STUDENT => result = Forbidden
            /\ (users[caller].role \in {COUNSELOR, ADMIN} /\ x \in DOMAIN conversations)
                  => result = OK

\* C18 (effect): the call of a counselor or admin sets assigned_to to the
\* given counselor and status to IN_PROGRESS and nothing else of the
\* conversation; the call of a student changes nothing; no other
\* conversation, no message and no user changes.
C18_AssignStep ==
    \A caller \in DOMAIN users, x \in DOMAIN conversations, counselorId \in Counselors :
        AssignToCounselor(caller, x, counselorId) =>
            /\ users' = users /\ messages' = messages
            /\ DOMAIN conversations' = DOMAIN conversations
            /\ \A y \in DOMAIN conversations \ {x} : conversations'[y] = conversations[y]
            /\ conversations'[x] =
                  IF users[caller].role = STUDENT
                  THEN conversations[x]
                  ELSE [conversations[x] EXCEPT !.assigned_to = counselorId,
                                                !.status = "in_progress"]

\* C18: assignToCounselor by a counselor or admin on an existing conversation
\* always succeeds (the conversation is freely reassignable), sets
\* assigned_to and status IN_PROGRESS and leaves owner, urgency, category,
\* anonymity and the messages unchanged; by a student it is Forbidden and
\* changes nothing.
C18_FreelyReassignable ==
    /\ []C18_AssignOutcomes
    /\ [][C18_AssignStep]_vars

\* C18 witness: a conversation assigned to c2 and IN_PROGRESS, which c1 may
\* assign again and its owner may not.
C18_Witness ==
    \E x \in DOMAIN conversations :
        /\ conversations[x].assigned_to = "c2"
        /\ conversations[x].status = S_IN_PROGRESS
        /\ conversations[x].is_anonymous
        /\ AssignOutcome(x, "c1", COUNSELOR) = OK
        /\ AssignOutcome(x, "c1", users[conversations[x].user_id].role) = Forbidden

\* C20 as stated: toggleAnonymity is Forbidden for a counselor, an admin and
\* a student who does not own the existing conversation, and NotFound only
\* when no conversation has the id.
C20_ToggleFailureKinds ==
    \A caller \in DOMAIN users, x \in ConvIds :
        LET result == ToggleOutcome(x, caller, users[caller].role)
        IN  /\ users[caller].role # STUDENT => result = Forbidden
            /\ (/\ users[caller].role = STUDENT
                /\ x \in DOMAIN conversations
                /\ conversations[x].user_id # caller) => result = Forbidden
            /\ result = NotFound => x \notin DOMAIN conversations
            /\ result = OK => /\ users[caller].role = STUDENT
                              /\ conversations[x].user_id = caller

\* =========================================================================
\* Message activity and the conversation (checked under SpecMessages)
\* =========================================================================

\* A step of message activity: a send, a markAsRead or a
\* markConversationAsRead, by any caller.
MessageActivity ==
    \/ \E caller \in DOMAIN users, x \in ConvIds, text \in MessageTexts, elapsed \in Elapsed :
            MessageCreate(caller, x, text, elapsed)
    \/ \E caller \in DOMAIN users, m \in MsgIds : MarkAsRead(caller, m)
    \/ \E caller \in DOMAIN users, x \in ConvIds : MarkConversationAsRead(caller, x)

\* C19: sending a message, markAsRead and markConversationAsRead leave every
\* conversation's status, assigned_to, urgency, category, is_anonymous and
\* user_id as they were.
C19_MessageActivityLeavesConversations ==
    [][MessageActivity =>
          /\ DOMAIN conversations' = DOMAIN conversations
          /\ \A c \in DOMAIN conversations :
                /\ conversations'[c].status = conversations[c].status
                /\ conversations'[c].assigned_to = conversations[c].assigned_to
                /\ conversations'[c].urgency = conversations[c].urgency
                /\ conversations'[c].category = conversations[c].category
                /\ conversations'[c].is_anonymous = conversations[c].is_anonymous
                /\ conversations'[c].user_id = conversations[c].user_id]_vars

\* C19 witness: a conversation has received a second message and one of its
\* messages has been marked read, and it is still NEW and unassigned.
C19_Witness ==
    \E c \in DOMAIN conversations :
        /\ Cardinality(MessagesOf(c)) = 2
        /\ \E m \in MessagesOf(c) : m.is_read
        /\ conversations[c].status = S_NEW
        /\ conversations[c].assigned_to = NULL

\* =========================================================================
\* Properties of a counselor's reading rights (checked under SpecAccess and
\* SpecMessages)
\* =========================================================================

\* C23: on an existing conversation findOne and findByConversation admit a
\* counselor exactly when the conversation is unassigned or assigned to the
\* caller and are Forbidden when it is assigned to another counselor; an
\* admin is admitted by both on every existing conversation.
C23_CounselorReadsUnassignedOrOwn ==
    \A caller \in DOMAIN users, x \in DOMAIN conversations :
        LET one == FindOneOutcome(x, caller, users[caller].role)
            list == FindByConversationOutcome(x, caller, users[caller].role)
        IN  /\ users[caller].role = COUNSELOR =>
                  IF conversations[x].assigned_to \in {NULL, caller}
                  THEN one = OK /\ list = OK
                  ELSE one = Forbidden /\ list = Forbidden
            /\ users[caller].role = ADMIN => one = OK /\ list = OK

\* C23 witness: one conversation is assigned to c1 (c2 is refused both reads,
\* c1 and the admin are not) and another is unassigned (c2 is admitted).
C23_Witness ==
    \E x \in DOMAIN conversations, y \in DOMAIN conversations :
        /\ conversations[x].assigned_to = "c1"
        /\ conversations[y].assigned_to = NULL
        /\ FindOneOutcome(x, "c2", COUNSELOR) = Forbidden
        /\ FindByConversationOutcome(x, "c2", COUNSELOR) = Forbidden
        /\ FindByConversationOutcome(x, "c1", COUNSELOR) = OK
        /\ FindByConversationOutcome(x, "a1", ADMIN) = OK
        /\ FindByConversationOutcome(y, "c2", COUNSELOR) = OK

\* C24 as stated: whenever markAsRead by counselor D on a message of X is
\* Forbidden with X.assigned_to # D (X unassigned included),
\* markConversationAsRead by D on X fails too and would flip no message.
C24_CounselorMarksOnlyAssigned ==
    \A d \in DOMAIN users, m \in DOMAIN messages :
        LET x == messages[m].conversation_id
        IN  (/\ users[d].role = COUNSELOR
             /\ conversations[x].assigned_to # d
             /\ MarkAsReadOutcome(m, d, COUNSELOR) = Forbidden)
                => /\ MarkConversationAsReadOutcome(x, d, COUNSELOR) # OK

\* =========================================================================
\* Properties of the assignee (checked under SpecAssignee)
\* =========================================================================

\* C27 as stated: a non-null assigned_to is the id of an existing user whose
\* role is COUNSELOR.
C27_AssigneeIsACounselor ==
    \A c \in DOMAIN conversations :
        conversations[c].assigned_to # NULL =>
            /\ conversations[c].assigned_to \in DOMAIN users
            /\ users[conversations[c].assigned_to].role = COUNSELOR

\* =========================================================================
\* Properties of the senders left after a deletion (checked under SpecCascade)
\* =========================================================================

\* C28 as stated: once deleteUser(U) has completed no stored message has
\* sender_id = U.
C28_NoMessageOfDeletedSender ==
    \A m \in DOMAIN messages : messages[m].sender_id \in DOMAIN users

\* =========================================================================
\* Properties of the statistics (checked under SpecQueue)
\* =========================================================================

\* The counts of the statistics taken over the conversations cs alone.
CountsOver(cs) ==
    [total |-> Cardinality(cs),
     new |-> Cardinality({c \in cs : conversations[c].status = "new"}),
     inProgress |-> Cardinality({c \in cs : conversations[c].status = "in_progress"}),
     resolved |-> Cardinality({c \in cs : conversations[c].status = "resolved"}),
     emergency |-> Cardinality({c \in cs :
                      /\ conversations[c].urgency = "emergency"
                      /\ conversations[c].status \in {"new", "in_progress"}})]

\* C30 as stated: the statistics of a counselor cover the conversations
\* assigned to it and no other; those of a student are what they would be
\* without the conversations of the other students; new + inProgress +
\* resolved never exceeds total and emergency counts NEW and IN_PROGRESS
\* conversations only.
C30_StatisticsScopedToCaller ==
    \A caller \in DOMAIN users :
        LET statistics == GetStatistics(caller, users[caller].role)
        IN  /\ users[caller].role = COUNSELOR =>
                  statistics = CountsOver({c \in DOMAIN conversations :
                                              conversations[c].assigned_to = caller})
            /\ users[caller].role = STUDENT =>
                  statistics = CountsOver({c \in DOMAIN conversations :
                                              conversations[c].user_id = caller})
            /\ statistics.new + statistics.inProgress + statistics.resolved
                  <= statistics.total
            /\ statistics.emergency <= statistics.new + statistics.inProgress

\* -------------------------------------------------------------------------
\* C22: when assignToCounselor calls on one conversation run concurrently,
\* each a find followed by a save, no call that found the conversation is
\* rejected because of another: every save succeeds and leaves the
\* conversation assigned to its own target with status IN_PROGRESS, so the
\* final assigned_to is the target of the save that ran last.
C22_LastAssignWins ==
    [][\A r \in DOMAIN inflight :
          AssignToCounselorSave(r) =>
              /\ inflight'[r].outcome = OK
              /\ conversations'[inflight[r].id].assigned_to = inflight[r].arg
              /\ conversations'[inflight[r].id].status = S_IN_PROGRESS]_vars

\* Two calls with different targets both found the conversation unassigned,
\* both have saved, and the conversation is assigned to one of the targets.
C22_Witness ==
    \E r1, r2 \in CallsAt("assignToCounselor", Done) :
        /\ r1 # r2
        /\ inflight[r1].outcome = OK /\ inflight[r2].outcome = OK
        /\ inflight[r1].id = inflight[r2].id
        /\ inflight[r1].arg = "c1" /\ inflight[r2].arg = "c2"
        /\ inflight[r1].loaded.assigned_to = NULL
        /\ inflight[r2].loaded.assigned_to = NULL
        /\ conversations[inflight[r1].id].assigned_to = "c1"
        /\ conversations[inflight[r1].id].status = S_IN_PROGRESS

\* -------------------------------------------------------------------------
\* C25: the save of a counselor's update never changes the status or the
\* assigned_to of a conversation that is, at the moment of the save, assigned
\* to another counselor.
C25_UpdateSaveRespectsAssignment ==
    [][\A r \in DOMAIN inflight :
          ( /\ UpdateSave(r)
            /\ users[inflight[r].caller].role = COUNSELOR
            /\ conversations[inflight[r].id].assigned_to
                  \in Counselors \ {inflight[r].caller} ) =>
              /\ conversations'[inflight[r].id].status
                    = conversations[inflight[r].id].status
              /\ conversations'[inflight[r].id].assigned_to
                    = conversations[inflight[r].id].assigned_to]_vars

\* -------------------------------------------------------------------------
\* C26: in every state, the states between two statements of deleteUser, of
\* MessagesService.create and of ConversationsService.create included, every
\* message's conversation_id names a stored conversation and every
\* conversation's user_id names a stored user.
C26_ReferentialIntegrity ==
    /\ \A m \in DOMAIN messages : Exists(conversations, messages[m].conversation_id)
    /\ \A c \in DOMAIN conversations : Exists(users, conversations[c].user_id)

\* A deleteUser has deleted the messages of the user's conversations and not
\* yet the conversations, and a message sent meanwhile is in one of them.
C26_Witness ==
    \E r \in CallsAt("deleteUser", "conversations") :
        /\ MessagesIn(inflight[r].loaded) # {}
        /\ \E q \in CallsAt("message", Done) :
              inflight[q].outcome = OK /\ inflight[q].id \in inflight[r].loaded

Refusals == {NotFound, Forbidden, Conflict}

C29_ConversationCalls ==
    \A caller \in DOMAIN users, x \in ConvIds :
        /\ (Create(caller, "academic", MEDIUM, <<>>, "hi", 1)
              /\ CreateOutcome(caller) \in Refusals)
              => UNCHANGED store
        /\ (Update(caller, x, UpdateDto(S_RESOLVED, NULL))
              /\ UpdateOutcome(x, UpdateDto(S_RESOLVED, NULL), caller,
                               users[caller].role) \in Refusals)
              => UNCHANGED store
        /\ (AssignToCounselor(caller, x, "c1")
              /\ AssignOutcome(x, "c1", users[caller].role) \in Refusals)
              => UNCHANGED store
        /\ (ToggleAnonymity(caller, x)
              /\ ToggleOutcome(x, caller, users[caller].role) \in Refusals)
              => UNCHANGED store

C29_MessageCalls ==
    \A caller \in DOMAIN users :
        /\ \A x \in ConvIds :
              /\ (MessageCreate(caller, x, "ok", 1)
                    /\ MessageCreateOutcome(x, caller, users[caller].role) \in Refusals)
                    => UNCHANGED store
              /\ (MarkConversationAsRead(caller, x)
                    /\ MarkConversationAsReadOutcome(x, caller, users[caller].role)
                          \in Refusals)
                    => UNCHANGED store
        /\ \A m \in MsgIds :
              (MarkAsRead(caller, m)
                 /\ MarkAsReadOutcome(m, caller, users[caller].role) \in Refusals)
                 => UNCHANGED store

C29_UserCalls ==
    /\ \A caller \in DOMAIN users, id \in UserIds :
          (DeleteUser(caller, id) /\ DeleteRouteOutcome(caller, id) \in Refusals)
             => UNCHANGED store
    /\ \A username \in Usernames :
          (Register(username, <<>>) /\ RegisterOutcome(username) \in Refusals)
             => UNCHANGED store

\* C29: a call of create, update, assignToCounselor, toggleAnonymity, message
\* create, markAsRead, markConversationAsRead, deleteUser or register that
\* ends with NotFound, Forbidden or Conflict leaves the stored users,
\* conversations and messages exactly as they were.
C29_RefusedCallChangesNothing ==
    [][C29_ConversationCalls /\ C29_MessageCalls /\ C29_UserCalls]_vars

\* A conversation assigned to c1 whose opening message is unread: c2's
\* markConversationAsRead is Forbidden while rows match its bulk update, an
\* update of an id that names no conversation is NotFound, and registering
\* the username bob again is a Conflict.
C29_Witness ==
    \E x \in DOMAIN conversations :
        /\ conversations[x].assigned_to = "c1"
        /\ MatchedByMarkAll(x, COUNSELOR) # {}
        /\ MarkConversationAsReadOutcome(x, "c2", COUNSELOR) = Forbidden
        /\ UpdateOutcome(nextConv, UpdateDto(S_RESOLVED, NULL), "c1", COUNSELOR) = NotFound
        /\ UsersNamed("bob") # {}
        /\ RegisterOutcome("bob") = Conflict

====
